---------------------------- MODULE Spec2Model ----------------------------
(***************************************************************************)
(* seder: the POST /v0/data handler of server.go, its binary decoder       *)
(* decodeV0 and its file writer writeToFileV0.                             *)
(*                                                                         *)
(* Byte strings ([]byte, string) are sequences of byte values 0..255.      *)
(* A time.Time is a record [sec, ms]: the Unix second and the millisecond  *)
(* within it (every time the program builds is a whole number of ms).      *)
(* A file is a sequence of CSV rows, a row a sequence of fields, a field a *)
(* byte string; csv.Writer's quoting keeps the fields of a row apart and   *)
(* is not modelled below the row.                                          *)
(***************************************************************************)
EXTENDS Integers, Sequences, FiniteSets, TLC

(***************************************************************************)
(* Bounds of the model.                                                    *)
(***************************************************************************)
\* Largest sample count (nsamp) of the payloads given to the decoder.
MaxSamples == 3
\* Largest channel count (nmeas) of the payloads given to the decoder.
MaxChannels == 2
\* Requests the server handles in one run.
MaxRequests == 2
\* I/O failures injected in one run.
MaxFaults == 1
\* Rows bufio.Writer holds before it writes them out on its own (the
\* stand-in, in rows, for bufio's 4096-byte buffer under csv.Writer).
BufRows == 2

\* Bytes decodeV0 reads before the sample data: id 10, device 10, t1 4,
\* t2 4, per 2, nsamp 2, nmeas 1.
HeaderLen == 33
\* The header length the comment above decodeV0 gives ("TOTAL 23 bytes").
DocHeaderLen == 23

(***************************************************************************)
(* Integer and string helpers.                                             *)
(***************************************************************************)
\* int16 arithmetic wraps modulo 2^16.
Wrap16(x) == ((x + 32768) % 65536) - 32768

RECURSIVE Digits(_, _)
\* n >= 0 in decimal, at least w digits (fmt "%0wd").
Digits(n, w) ==
    IF n < 10 /\ w <= 1 THEN <<48 + n>>
    ELSE Digits(n \div 10, w - 1) \o <<48 + (n % 10)>>

\* strconv.Itoa
Itoa(n) == IF n < 0 THEN <<45>> \o Digits(-n, 1) ELSE Digits(n, 1)

RECURSIVE TrimZeros(_)
TrimZeros(s) ==
    IF s # <<>> /\ s[Len(s)] = 48 THEN TrimZeros(SubSeq(s, 1, Len(s) - 1)) ELSE s

Take(s, n) == SubSeq(s, 1, n)

(***************************************************************************)
(* time.Time: UTC calendar fields of [sec, ms].                            *)
(***************************************************************************)
\* time.Unix(sec, nsec) with nsec = msTotal * 1000000: nsec is normalised
\* into [0, 1e9), the carry going to the seconds.
timeUnix(sec, msTotal) ==
    [sec |-> sec + (msTotal \div 1000), ms |-> msTotal % 1000]

\* Civil date of a day number counted from 1970-01-01.
Date(days) ==
    LET z   == days + 719468
        era == z \div 146097
        doe == z - era * 146097
        yoe == (doe - (doe \div 1460) + (doe \div 36524) - (doe \div 146096)) \div 365
        doy == doe - (365 * yoe + (yoe \div 4) - (yoe \div 100))
        mp  == (5 * doy + 2) \div 153
        d   == doy - ((153 * mp + 2) \div 5) + 1
        m   == IF mp < 10 THEN mp + 3 ELSE mp - 9
        y   == yoe + era * 400 + (IF m <= 2 THEN 1 ELSE 0)
    IN  [year |-> y, month |-> m, day |-> d]

Hour(t) == (t.sec \div 3600) % 24
Minute(t) == (t.sec \div 60) % 60
Second(t) == t.sec % 60

\* t.Format("2006/01/02")
FormatDate(t) ==
    LET c == Date(t.sec \div 86400)
    IN  <<Digits(c.year, 4), Digits(c.month, 2), Digits(c.day, 2)>>

\* t.Format(time.RFC3339Nano) of a UTC time: the fraction loses its
\* trailing zeros and is left out when it is zero.
FormatRFC3339Nano(t) ==
    LET c == Date(t.sec \div 86400)
        frac == TrimZeros(Digits(t.ms, 3))
    IN  Digits(c.year, 4) \o <<45>> \o Digits(c.month, 2) \o <<45>> \o Digits(c.day, 2)
        \o <<84>> \o Digits(Hour(t), 2) \o <<58>> \o Digits(Minute(t), 2)
        \o <<58>> \o Digits(Second(t), 2)
        \o (IF frac = <<>> THEN <<>> ELSE <<46>> \o frac) \o <<90>>

(***************************************************************************)
(* decodeV0                                                                *)
(***************************************************************************)
\* PanicIf(err): whether the call panics.
PanicIfNever(err) == FALSE

PanicIf(err) == err

\* binary.Read of n bytes at offset pos of the reader: the bytes and the
\* new offset, or an error (io.EOF, io.ErrUnexpectedEOF) when fewer than n
\* bytes are left; the reader is then drained and the destination is left
\* as it was.
Read(body, pos, n) ==
    IF pos + n <= Len(body)
    THEN [err |-> FALSE, bytes |-> SubSeq(body, pos + 1, pos + n), pos |-> pos + n]
    ELSE [err |-> TRUE, bytes |-> <<>>, pos |-> Len(body)]

\* Little-endian decoding of the fixed-size types.
LESigned16(b) == Wrap16(b[1] + 256 * b[2])

LEUint32(b) == b[1] + 256 * b[2] + 65536 * b[3] + 16777216 * b[4]

Zeros(n) == [k \in 1..n |-> 0]

\* The sample time of server.go:153,
\* time.Unix(int64(t1), (int64(t2)+int64(per*i))*1000000):
\* per*i is an int16 product.
SampleTime(t1, t2, per, i) == timeUnix(t1, t2 + Wrap16(per * i))

\* binary.Read(buf, binary.LittleEndian, &i16) at offset pos, i16 holding
\* old before the call: [err, pos, i16].
ReadInt16BigEndian(body, pos, old) ==
    LET r == Read(body, pos, 2)
    IN  [err |-> r.err, pos |-> r.pos,
         i16 |-> IF r.err THEN old ELSE Wrap16(256 * r.bytes[1] + r.bytes[2])]

ReadInt16(body, pos, old) ==
    LET r == Read(body, pos, 2)
    IN  [err |-> r.err, pos |-> r.pos,
         i16 |-> IF r.err THEN old ELSE LESigned16(r.bytes)]

RECURSIVE ReadValues(_, _, _, _)
\* The inner loop over j: nmeas reads into i16, each followed by PanicIf.
\* acc = [panic, pos, i16, values].
ReadValues(body, nmeas, j, acc) ==
    IF j >= nmeas \/ acc.panic THEN acc
    ELSE LET r == ReadInt16(body, acc.pos, acc.i16)
             v == r.i16
         IN  ReadValues(body, nmeas, j + 1,
                        [panic  |-> PanicIf(r.err),
                         pos    |-> r.pos,
                         i16    |-> v,
                         values |-> IF PanicIf(r.err) THEN acc.values
                                    ELSE Append(acc.values, v)])

RECURSIVE ReadSamples(_, _, _, _)
\* The outer loop over i. h = the decoded header fields,
\* acc = [panic, pos, i16, samples].
ReadSamples(body, h, i, acc) ==
    IF i >= h.nsamp \/ acc.panic THEN acc
    ELSE LET vs == ReadValues(body, h.nmeas, 0,
                              [panic |-> FALSE, pos |-> acc.pos, i16 |-> acc.i16,
                               values |-> <<>>])
             s  == [id     |-> h.id,
                    device |-> h.device,
                    time   |-> SampleTime(h.t1, h.t2, h.per, i),
                    per    |-> h.per,
                    values |-> vs.values]
         IN  ReadSamples(body, h, i + 1,
                         [panic   |-> vs.panic,
                          pos     |-> vs.pos,
                          i16     |-> vs.i16,
                          samples |-> IF vs.panic THEN acc.samples
                                      ELSE Append(acc.samples, s)])

\* decodeV0(body): [panic, samples]. panic is TRUE when the call ends in a
\* panic (PanicIf on a read error, or make() with a negative length) and
\* returns nothing; samples is then what had been built.
decodeV0(body) ==
    LET rId  == Read(body, 0, 10)
        rDev == Read(body, rId.pos, 10)
        rT1  == Read(body, rDev.pos, 4)
        rT2  == Read(body, rT1.pos, 4)
        rPer == Read(body, rT2.pos, 2)
        rNs  == Read(body, rPer.pos, 2)
        rNm  == Read(body, rNs.pos, 1)
        headerPanic ==
            \/ PanicIf(rId.err) \/ PanicIf(rDev.err) \/ PanicIf(rT1.err)
            \/ PanicIf(rT2.err) \/ PanicIf(rPer.err) \/ PanicIf(rNs.err)
            \/ PanicIf(rNm.err)
        h == [id     |-> IF rId.err THEN Zeros(10) ELSE rId.bytes,
              device |-> IF rDev.err THEN Zeros(10) ELSE rDev.bytes,
              t1     |-> IF rT1.err THEN 0 ELSE LEUint32(rT1.bytes),
              t2     |-> IF rT2.err THEN 0 ELSE LEUint32(rT2.bytes),
              per    |-> IF rPer.err THEN 0 ELSE LESigned16(rPer.bytes),
              nsamp  |-> IF rNs.err THEN 0 ELSE LESigned16(rNs.bytes),
              nmeas  |-> IF rNm.err THEN 0 ELSE rNm.bytes[1]]
    IN  IF headerPanic THEN [panic |-> TRUE, samples |-> <<>>]
        ELSE IF h.nsamp < 0 THEN [panic |-> TRUE, samples |-> <<>>]
        ELSE LET r == ReadSamples(body, h, 0,
                                  [panic |-> FALSE, pos |-> rNm.pos, i16 |-> 0,
                                   samples |-> <<>>])
             IN  [panic |-> r.panic, samples |-> r.samples]

(***************************************************************************)
(* Sample.row, Sample.header and the destination path                      *)
(***************************************************************************)
\* "account", "device", "time", "period", and "A" as byte strings.
StrAccount == <<97, 99, 99, 111, 117, 110, 116>>
StrDevice == <<100, 101, 118, 105, 99, 101>>
StrTime == <<116, 105, 109, 101>>
StrPeriod == <<112, 101, 114, 105, 111, 100>>
StrDotDat == <<46, 100, 97, 116>>

rowNoValues(sample) ==
    <<sample.id, sample.device, FormatRFC3339Nano(sample.time), Itoa(sample.per)>>

row(sample) ==
    <<sample.id, sample.device, FormatRFC3339Nano(sample.time), Itoa(sample.per)>>
    \o [k \in 1..Len(sample.values) |-> Itoa(sample.values[k])]

header(sample) ==
    <<StrAccount, StrDevice, StrTime, StrPeriod>>
    \o [k \in 1..Len(sample.values) |-> <<65>> \o Itoa(k - 1)]

\* The record writeToFileV0 names the file after.
LastSample(samples) == samples[Len(samples)]

PathSample(samples) == samples[1]

\* filepath.Join(dir, id, t.Format("2006/01/02"), "%02d-%s.dat"), below the
\* data directory: <<id, YYYY, MM, DD, HH-device.dat>>.
DestPath(samples) ==
    LET s == PathSample(samples)
    IN  <<s.id>> \o FormatDate(s.time)
        \o <<Digits(Hour(s.time), 2) \o <<45>> \o s.device \o StrDotDat>>

\* filepath.Dir(path) and the directories os.MkdirAll makes for it.
DirOf(path) == Take(path, Len(path) - 1)

Ancestors(dir) == {Take(dir, k) : k \in 1..Len(dir)}

(***************************************************************************)
(* Payloads.                                                               *)
(***************************************************************************)
LE16(n) == <<(n % 65536) % 256, (n % 65536) \div 256>>

LE32(n) == <<n % 256, (n \div 256) % 256, (n \div 65536) % 256, n \div 16777216>>

\* Two identifiers of ten bytes: "ABCDEFGHIJ" and "aBK23o#OP@".
AccountId == <<65, 66, 67, 68, 69, 70, 71, 72, 73, 74>>
DeviceId == <<97, 66, 75, 50, 51, 111, 35, 79, 80, 64>>

\* The k-th 16-bit reading of a payload's sample data (k from 0).
Reading(k) == <<10, 20, -1, -32768, 32767, 30, 40, 0>>[(k % 8) + 1]

RECURSIVE Readings(_)
Readings(n) == IF n <= 0 THEN <<>> ELSE Readings(n - 1) \o LE16(Reading(n - 1))

\* A well-formed V0 payload of n samples of c channels.
Payload(t1, t2, per, n, c) ==
    AccountId \o DeviceId \o LE32(t1) \o LE32(t2) \o LE16(per) \o LE16(n) \o <<c>>
    \o Readings(n * c)

\* 1394413060 = 2014-03-10T00:57:40Z, 1394413199 = 00:59:59Z,
\* 1394413200 = 01:00:00Z.
BaseTimes == {1394413060, 1394413199}
DeltaTimes == {0, 57326}
Periods == {800, 1000, 20000, -20000}

\* What the decoder is given: every payload of the bounds, whole, cut short
\* (to nothing, inside the header, to the header alone, inside the sample
\* data) and with a byte to spare.
DecodeInputs ==
    UNION {
        LET P == Payload(t1, t2, per, n, c)
        IN  {Take(P, l) : l \in {0, 9, DocHeaderLen, HeaderLen - 1, HeaderLen,
                                  Len(P) - 10, Len(P) - 1, Len(P)}
                                 \cap 0..Len(P)}
            \cup {P \o <<7>>}
        : t1 \in BaseTimes, t2 \in DeltaTimes, per \in Periods,
          n \in -1..MaxSamples, c \in 0..MaxChannels }

\* The request bodies of the server runs.
Bodies ==
    << Payload(1394413199, 0, 1000, 3, 1),
       Payload(1394413060, 57326, 800, 1, 2),
       Payload(1394413200, 0, 1000, 1, 1),
       Payload(1394413060, 0, 1000, 0, 1),
       Take(Payload(1394413199, 0, 1000, 3, 1), HeaderLen + 5),
       <<>> >>

Decoded == [b \in 1..Len(Bodies) |-> decodeV0(Bodies[b])]

(***************************************************************************)
(* State.                                                                  *)
(***************************************************************************)
Procs == {1, 2}

VARIABLES
    pc,        \* pc[p]: where handler goroutine p is: "idle", or about to
               \* make the I/O call "mkdir", "open", "stat", "flush"
    samples,   \* samples[p]: the batch writeToFileV0 was called with
    path,      \* path[p]: writeToFileV0's path
    buf,       \* buf[p]: the rows csv.Writer's bufio.Writer holds
    next,      \* next[p]: index of the next sample the range loop writes
    call,      \* call[p]: number of the request p is handling (0: none)
    dirs,      \* the directories below the data directory
    files,     \* files[path]: the rows of the file, each with the number
               \* of the request that wrote it
    hist,      \* history: one record per request, in arrival order
    faults,    \* I/O failures so far
    dIn,       \* decoder run: the payload
    dOut       \* decoder run: "none" or decodeV0's outcome

vars == <<pc, samples, path, buf, next, call, dirs, files, hist, faults, dIn, dOut>>
decoderVars == <<dIn, dOut>>

ServerInit ==
    /\ pc = [p \in Procs |-> "idle"]
    /\ samples = [p \in Procs |-> <<>>]
    /\ path = [p \in Procs |-> <<>>]
    /\ buf = [p \in Procs |-> <<>>]
    /\ next = [p \in Procs |-> 0]
    /\ call = [p \in Procs |-> 0]
    /\ dirs = {}
    /\ files = <<>>
    /\ hist = <<>>
    /\ faults = 0

NoOutcome == [done |-> FALSE, panic |-> FALSE, samples |-> <<>>]

(***************************************************************************)
(* The POST /v0/data handler and writeToFileV0, one action per I/O call.   *)
(* A handler goroutine runs on its own between two I/O calls, so what lies *)
(* between them (decoding, filling the buffer) is part of the action.      *)
(***************************************************************************)
Request(p, b, status, dest, pre, overlap) ==
    [proc |-> p, b |-> b, status |-> status, path |-> dest, pre |-> pre,
     post |-> 0, sawEmpty |-> FALSE, overlap |-> overlap, fault |-> FALSE,
     touched |-> FALSE]

FileLen(f, dest) == IF dest \in DOMAIN f THEN Len(f[dest]) ELSE 0

\* The goroutines inside writeToFileV0 for the file dest.
Writing(dest) == {q \in Procs : pc[q] # "idle" /\ path[q] = dest}

\* The handler up to its first I/O call: the empty-body return, decodeV0
\* (a panic ends the handler), and writeToFileV0 up to os.MkdirAll.
Post(p, b) ==
    /\ pc[p] = "idle"
    /\ Len(hist) < MaxRequests
    /\ LET body == Bodies[b]
           d    == decodeV0(body)
       IN  IF Len(body) = 0
           THEN /\ hist' = Append(hist, Request(p, b, "emptybody", <<>>, 0, FALSE))
                /\ UNCHANGED <<pc, samples, path, call>>
           ELSE IF d.panic
           THEN /\ hist' = Append(hist, Request(p, b, "panic", <<>>, 0, FALSE))
                /\ UNCHANGED <<pc, samples, path, call>>
           ELSE IF Len(d.samples) = 0
           THEN /\ hist' = Append(hist, Request(p, b, "nil", <<>>, 0, FALSE))
                /\ UNCHANGED <<pc, samples, path, call>>
           ELSE LET dest   == DestPath(d.samples)
                    others == Writing(dest)
                IN  /\ pc' = [pc EXCEPT ![p] = "mkdir"]
                    /\ samples' = [samples EXCEPT ![p] = d.samples]
                    /\ path' = [path EXCEPT ![p] = dest]
                    /\ call' = [call EXCEPT ![p] = Len(hist) + 1]
                    /\ hist' = Append(
                          [c \in 1..Len(hist) |->
                              IF \E q \in others : call[q] = c
                              THEN [hist[c] EXCEPT !.overlap = TRUE]
                              ELSE hist[c]],
                          Request(p, b, "running", dest, FileLen(files, dest),
                                  others # {}))
    /\ UNCHANGED <<buf, next, dirs, files, faults, dIn, dOut>>

\* writeToFileV0 returns status ("nil" or "err"); f is the file system it
\* leaves, failed whether an I/O call of it failed.
Return(p, status, f, failed) ==
    /\ pc' = [pc EXCEPT ![p] = "idle"]
    /\ samples' = [samples EXCEPT ![p] = <<>>]
    /\ path' = [path EXCEPT ![p] = <<>>]
    /\ buf' = [buf EXCEPT ![p] = <<>>]
    /\ next' = [next EXCEPT ![p] = 0]
    /\ call' = [call EXCEPT ![p] = 0]
    /\ files' = f
    /\ faults' = IF failed THEN faults + 1 ELSE faults
    /\ hist' = [hist EXCEPT ![call[p]] =
                   [@ EXCEPT !.status = status, !.touched = TRUE,
                             !.fault = failed, !.post = FileLen(f, path[p])]]
    /\ UNCHANGED decoderVars

Touch(p) == hist' = [hist EXCEPT ![call[p]].touched = TRUE]

\* os.MkdirAll(filepath.Dir(path), 0755)
MkdirAll(p) ==
    /\ pc[p] = "mkdir"
    /\ dirs' = dirs \cup Ancestors(DirOf(path[p]))
    /\ pc' = [pc EXCEPT ![p] = "open"]
    /\ Touch(p)
    /\ UNCHANGED <<samples, path, buf, next, call, files, faults, dIn, dOut>>

MkdirAllFails(p) ==
    /\ pc[p] = "mkdir"
    /\ faults < MaxFaults
    /\ Return(p, "err", files, TRUE)
    /\ UNCHANGED dirs

\* os.OpenFile(path, O_CREATE|O_APPEND|O_WRONLY, 0755)
OpenFile(p) ==
    /\ pc[p] = "open"
    /\ files' = IF path[p] \in DOMAIN files THEN files
                ELSE (path[p] :> <<>>) @@ files
    /\ pc' = [pc EXCEPT ![p] = "stat"]
    /\ Touch(p)
    /\ UNCHANGED <<samples, path, buf, next, call, dirs, faults, dIn, dOut>>

OpenFileFails(p) ==
    /\ pc[p] = "open"
    /\ faults < MaxFaults
    /\ Return(p, "err", files, TRUE)
    /\ UNCHANGED dirs

RECURSIVE Fill(_, _, _, _)
\* writer.Write(v.row()) for the samples from index n on, until the next
\* row finds bufio's buffer full: [buf, next].
Fill(b, n, ss, c) ==
    IF n > Len(ss) \/ Len(b) >= BufRows THEN [buf |-> b, next |-> n]
    ELSE Fill(Append(b, [call |-> c, cols |-> row(ss[n])]), n + 1, ss, c)

\* Whether Stat's size makes writeToFileV0 write the header.
IsNewAlways(size) == TRUE

IsNew(size) == size = 0

\* file.Stat(), the header when the size is 0, and the rows that fit the
\* buffer.
Stat(p) ==
    /\ pc[p] = "stat"
    /\ LET size == Len(files[path[p]])
           hd   == IF IsNew(size)
                   THEN <<[call |-> call[p], cols |-> header(samples[p][1])]>>
                   ELSE <<>>
           f    == Fill(hd, 1, samples[p], call[p])
       IN  /\ buf' = [buf EXCEPT ![p] = f.buf]
           /\ next' = [next EXCEPT ![p] = f.next]
           /\ hist' = [hist EXCEPT ![call[p]].sawEmpty = (size = 0)]
    /\ pc' = [pc EXCEPT ![p] = "flush"]
    /\ UNCHANGED <<samples, path, call, dirs, files, faults, dIn, dOut>>

StatFails(p) ==
    /\ pc[p] = "stat"
    /\ faults < MaxFaults
    /\ Return(p, "err", files, TRUE)
    /\ UNCHANGED dirs

\* The file after a write(2) of rows to the O_APPEND descriptor of p.
Truncating(p, rows) == [files EXCEPT ![path[p]] = rows]

Appended(p, rows) == [files EXCEPT ![path[p]] = @ \o rows]

\* The status writeToFileV0 returns when the write of its buffer fails:
\* a row's writer.Write returns the error, writer.Flush() has no result.
FlushError(final) == IF final THEN "nil" ELSE "err"

\* The buffer is written out: by the writer.Write that found it full (the
\* loop then goes on), or by writer.Flush() after the last row (then
\* writeToFileV0 returns nil).
Flush(p) ==
    /\ pc[p] = "flush"
    /\ IF next[p] > Len(samples[p])
       THEN Return(p, "nil", Appended(p, buf[p]), FALSE)
       ELSE LET f == Fill(<<>>, next[p], samples[p], call[p])
            IN  /\ files' = Appended(p, buf[p])
                /\ buf' = [buf EXCEPT ![p] = f.buf]
                /\ next' = [next EXCEPT ![p] = f.next]
                /\ UNCHANGED <<pc, samples, path, call, hist, faults>>
    /\ UNCHANGED <<dirs, dIn, dOut>>

\* The write fails after k of the buffered rows reached the file.
FlushFails(p, k) ==
    /\ pc[p] = "flush"
    /\ faults < MaxFaults
    /\ k \in 0..(Len(buf[p]) - 1)
    /\ Return(p, FlushError(next[p] > Len(samples[p])),
              Appended(p, Take(buf[p], k)), TRUE)
    /\ UNCHANGED dirs

Next ==
    \E p \in Procs :
        \/ \E b \in 1..Len(Bodies) : Post(p, b)
        \/ MkdirAll(p)
        \/ MkdirAllFails(p)
        \/ OpenFile(p)
        \/ OpenFileFails(p)
        \/ Stat(p)
        \/ StatFails(p)
        \/ Flush(p)
        \/ \E k \in 0..BufRows : FlushFails(p, k)

Init == ServerInit /\ dIn = <<>> /\ dOut = NoOutcome

Spec == Init /\ [][Next]_vars

(***************************************************************************)
(* The decoder on its own: decodeV0 applied to every payload of the bounds *)
(***************************************************************************)
Decode ==
    /\ ~dOut.done
    /\ dOut' = [done |-> TRUE, panic |-> decodeV0(dIn).panic,
                samples |-> IF decodeV0(dIn).panic THEN <<>>
                            ELSE decodeV0(dIn).samples]
    /\ UNCHANGED <<dIn, pc, samples, path, buf, next, call, dirs, files, hist, faults>>

DecoderInit == ServerInit /\ dIn \in DecodeInputs /\ dOut = NoOutcome

DecoderNext == Decode

DecoderSpec == DecoderInit /\ [][DecoderNext]_vars

(***************************************************************************)
(* What the claims are stated with: the header fields read straight off    *)
(* the payload's bytes, and the history of the requests.                   *)
(***************************************************************************)
DeclaredSamples(body) == Wrap16(body[31] + 256 * body[32])
DeclaredChannels(body) == body[33]
DeclaredPeriod(body) == Wrap16(body[29] + 256 * body[30])
DeclaredBase(body) ==
    body[21] + 256 * body[22] + 65536 * body[23] + 16777216 * body[24]
DeclaredDelta(body) ==
    body[25] + 256 * body[26] + 65536 * body[27] + 16777216 * body[28]

\* The bytes of sample data the header declares: N*C*2.
DataLen(body) == DeclaredSamples(body) * DeclaredChannels(body) * 2

FullLen(body) == HeaderLen + DataLen(body)

\* The payload is shorter than its header or than the length it declares.
Short(body) == Len(body) < HeaderLen \/ Len(body) < FullLen(body)

\* The signed little-endian 16-bit integer at offset off of the sample
\* data, which follows a header of hlen bytes.
ReadingFrom(body, hlen, off) ==
    Wrap16(body[hlen + off + 1] + 256 * body[hlen + off + 2])

ReadingAt(body, off) == ReadingFrom(body, HeaderLen, off)

\* base_time_s*1000 + delta_time_ms + i*period_ms milliseconds since the
\* epoch, as second and millisecond.
LinearTime(body, i) ==
    LET total == DeclaredDelta(body) + i * DeclaredPeriod(body)
    IN  [sec |-> DeclaredBase(body) + (total \div 1000), ms |-> total % 1000]

Calls == 1..Len(hist)
Finished(c) == hist[c].status \in {"nil", "err"}
CallsOn(dest) == {c \in Calls : hist[c].path = dest}
Content(dest) == [k \in 1..Len(files[dest]) |-> files[dest][k].cols]
IsHeaderRow(cols) == cols[1] = StrAccount
HeaderRows(dest) == {k \in 1..Len(files[dest]) : IsHeaderRow(files[dest][k].cols)}
WrittenBy(dest, c) == SelectSeq(files[dest], LAMBDA e : e.call = c)
DataWrittenBy(dest, c) ==
    SelectSeq(files[dest], LAMBDA e : e.call = c /\ ~IsHeaderRow(e.cols))
Batch(c) == Decoded[hist[c].b].samples
Rows(c) == [i \in 1..Len(Batch(c)) |-> row(Batch(c)[i])]
Cols(entries) == [k \in 1..Len(entries) |-> entries[k].cols]

\* Every writer call on dest so far has returned nil, met no I/O failure
\* and overlapped no other writer call on dest.
Clean(dest) ==
    \A c \in CallsOn(dest) :
        hist[c].status = "nil" /\ ~hist[c].fault /\ ~hist[c].overlap

RECURSIVE RowsUpTo(_, _)
\* The rows of the batches of the calls 1..n on dest, in call order.
RowsUpTo(dest, n) ==
    IF n = 0 THEN <<>>
    ELSE RowsUpTo(dest, n - 1) \o (IF hist[n].path = dest THEN Rows(n) ELSE <<>>)

FirstCallOn(dest) == CHOOSE c \in CallsOn(dest) : \A d \in CallsOn(dest) : c <= d

(***************************************************************************)
(* C1. Writer calls on one destination path are serialized: without any    *)
(* I/O failure, at most one call sees the file empty, the file has at most *)
(* one header row, and the rows of each call are contiguous in the file.   *)
(* The code takes no lock: two handlers can both Stat the file at size 0.  *)
(***************************************************************************)
\* C1: with no I/O failure, per file at most one call saw it empty, at most
\* one header row, and each call's rows contiguous.
C1_WritersSerialized ==
    faults = 0 =>
        \A dest \in DOMAIN files :
            /\ Cardinality({c \in CallsOn(dest) : hist[c].sawEmpty}) <= 1
            /\ Cardinality(HeaderRows(dest)) <= 1
            /\ \A i, j \in 1..Len(files[dest]) :
                   (i < j /\ files[dest][i].call = files[dest][j].call) =>
                       \A k \in i..j : files[dest][k].call = files[dest][i].call

(***************************************************************************)
(* C2. After successful, non-overlapping writer calls with non-empty       *)
(* batches on a path that did not exist, the file is one header row, the   *)
(* first row, followed by the rows of all batches in call order and, in    *)
(* each batch, in input order.                                             *)
(***************************************************************************)
\* C2: a file made by successful, non-overlapping calls is the header of the
\* first batch followed by the rows of all batches in call order.
C2_OneHeaderThenRowsInOrder ==
    \A dest \in DOMAIN files :
        (CallsOn(dest) # {} /\ Clean(dest)) =>
            /\ Content(dest) =
                   <<header(Batch(FirstCallOn(dest))[1])>> \o RowsUpTo(dest, Len(hist))
            /\ HeaderRows(dest) = {1}

\* C2 witness: a file written by two or more such calls, one of several rows.
C2_Witness ==
    \E dest \in DOMAIN files :
        /\ Clean(dest)
        /\ Cardinality(CallsOn(dest)) >= 2
        /\ \E c \in CallsOn(dest) : Len(Batch(c)) >= 2

(***************************************************************************)
(* C3. A payload shorter than 23 + N*C*2 bytes, or whose header is         *)
(* incomplete, makes decodeV0 fail (panic): it returns no record sequence, *)
(* neither a partial one nor one with unfilled values.                     *)
(***************************************************************************)
ShortAsStated(body) ==
    Len(body) < HeaderLen \/ Len(body) < DocHeaderLen + DataLen(body)

\* C3: decodeV0 panics on every payload shorter than 23 + N*C*2 bytes or
\* with an incomplete header, and returns nothing.
C3_ShortPayloadFails ==
    (dOut.done /\ ShortAsStated(dIn)) => (dOut.panic /\ dOut.samples = <<>>)

\* C3 witness: a payload with its whole header, cut inside the sample data,
\* was decoded and decodeV0 panicked.
C3_Witness ==
    /\ dOut.done
    /\ Len(dIn) >= HeaderLen
    /\ DeclaredSamples(dIn) >= 2
    /\ Len(dIn) < DocHeaderLen + DataLen(dIn)
    /\ dOut.panic

(***************************************************************************)
(* C4. Record i of a decoded batch has the timestamp                       *)
(* base_time_s*1000 + delta_time_ms + i*period_ms, for every period and    *)
(* index. The code multiplies per*i in int16, which wraps.                 *)
(***************************************************************************)
\* C4: the time of record i is base*1000 + delta + i*period milliseconds.
C4_TimestampLinear ==
    (dOut.done /\ ~dOut.panic) =>
        \A i \in 1..Len(dOut.samples) :
            dOut.samples[i].time = LinearTime(dIn, i - 1)

(***************************************************************************)
(* C5. A payload declaring N samples of C channels and carrying exactly    *)
(* N*C*2 bytes of sample data after the header decodes to exactly N        *)
(* records of C values, values[j] of record i the signed little-endian     *)
(* 16-bit integer at sample-data offset (i*C + j)*2. As stated             *)
(* (C5_ExactPayloadDecodes): after a 23-byte header, for every signed N.   *)
(* As amended (C5_ExactPayloadDecodesAfter33): after the 33 bytes decodeV0 *)
(* reads as the header, for N >= 0; decodeV0 fails for N < 0.              *)
(***************************************************************************)
DecodedAsDeclared(hlen) ==
    /\ ~dOut.panic
    /\ Len(dOut.samples) = DeclaredSamples(dIn)
    /\ \A i \in 1..Len(dOut.samples) :
           /\ Len(dOut.samples[i].values) = DeclaredChannels(dIn)
           /\ \A j \in 1..DeclaredChannels(dIn) :
                  dOut.samples[i].values[j] =
                      ReadingFrom(dIn, hlen,
                                  ((i - 1) * DeclaredChannels(dIn) + (j - 1)) * 2)

\* The header fields can be read and exactly N*C*2 bytes follow hlen bytes.
ExactPayload(hlen) == Len(dIn) >= HeaderLen /\ Len(dIn) = hlen + DataLen(dIn)

C6_AppendsWholeBatch ==
    \A c \in Calls :
        (Finished(c) /\ hist[c].path # <<>> /\ hist[c].pre > 0) =>
            /\ hist[c].post = hist[c].pre + Len(Rows(c))
            /\ Cols(SubSeq(files[hist[c].path], hist[c].pre + 1, hist[c].post)) = Rows(c)

\* C6 as amended, the state part: what a call on a non-empty file wrote.
C6_CallAppendsRows ==
    \A c \in Calls :
        (hist[c].path # <<>> /\ hist[c].pre > 0) =>
            LET dest == hist[c].path
                mine == Cols(WrittenBy(dest, c))
            IN  /\ \A k \in 1..Len(files[dest]) :
                       files[dest][k].call = c =>
                           k > hist[c].pre /\ ~IsHeaderRow(files[dest][k].cols)
                /\ Len(mine) <= Len(Rows(c))
                /\ mine = Take(Rows(c), Len(mine))
                /\ (hist[c].status = "nil" /\ ~hist[c].fault) => mine = Rows(c)
                /\ (Finished(c) /\ ~hist[c].fault /\ ~hist[c].overlap) =>
                       /\ hist[c].post = hist[c].pre + Len(Rows(c))
                       /\ Cols(SubSeq(files[dest], hist[c].pre + 1, hist[c].post))
                              = Rows(c)

\* C6 as amended, the step part: a step keeps every file and its rows.
FilesOnlyGrow ==
    \A dest \in DOMAIN files :
        /\ dest \in DOMAIN files'
        /\ Len(files'[dest]) >= Len(files[dest])
        /\ Take(files'[dest], Len(files[dest])) = files[dest]

\* C6 as amended: files only grow, and a call on a non-empty file appends no
\* header and a prefix of its rows, all of them after the previous content
\* when nothing fails and nothing overlaps.
C6_AppendOnly == [](C6_CallAppendsRows) /\ [][FilesOnlyGrow]_vars

\* C6 witness: a call of several rows on a non-empty file returned nil
\* without failure or overlap.
C6_Witness ==
    \E c \in Calls :
        /\ hist[c].status = "nil"
        /\ hist[c].pre > 0
        /\ ~hist[c].fault
        /\ ~hist[c].overlap
        /\ Len(Rows(c)) >= 2
        /\ hist[c].post = hist[c].pre + Len(Rows(c))

(***************************************************************************)
(* C7. When a step of a writer call fails, writeToFileV0 returns a non-nil *)
(* error; it returns nil only if every row of the batch reached the file.  *)
(* The code drops the error of the final writer.Flush().                   *)
(***************************************************************************)
\* C7: a call with a failed step returns an error, and a call that returns
\* nil has every row of its batch in the file.
C7_FailureIsReturned ==
    \A c \in Calls :
        (Finished(c) /\ hist[c].path # <<>>) =>
            /\ hist[c].fault => hist[c].status = "err"
            /\ hist[c].status = "nil" =>
                   Cols(DataWrittenBy(hist[c].path, c)) = Rows(c)

(***************************************************************************)
(* C8. A request whose payload fails to decode never reaches the writer    *)
(* and changes no file or directory; the writer only gets a batch that     *)
(* decodeV0 returned in full.                                              *)
(***************************************************************************)
Touching == {c \in Calls : hist[c].touched}

\* C8: a request whose payload is short ends in the panic, without any
\* writer call or file system change; a writer call holds the whole batch.
C8_DecodeFailureNeverWrites ==
    /\ \A c \in Calls :
           (Bodies[hist[c].b] # <<>> /\ Short(Bodies[hist[c].b])) =>
               /\ hist[c].status = "panic"
               /\ ~hist[c].touched
               /\ \A p \in Procs : call[p] # c
               /\ \A dest \in DOMAIN files : WrittenBy(dest, c) = <<>>
    /\ \A p \in Procs :
           pc[p] # "idle" =>
               LET body == Bodies[hist[call[p]].b]
               IN  /\ ~Short(body)
                   /\ Len(samples[p]) = DeclaredSamples(body)
                   /\ \A i \in 1..Len(samples[p]) :
                          /\ Len(samples[p][i].values) = DeclaredChannels(body)
                          /\ \A j \in 1..DeclaredChannels(body) :
                                 samples[p][i].values[j] =
                                     ReadingAt(body, ((i - 1) * DeclaredChannels(body)
                                                      + (j - 1)) * 2)
    /\ \A dest \in DOMAIN files : \E c \in Touching : hist[c].path = dest
    /\ \A d \in dirs : \E c \in Touching : d \in Ancestors(DirOf(hist[c].path))

\* C8 witness: a request panicked in decodeV0 and another wrote its file.
C8_Witness ==
    /\ \E c \in Calls : hist[c].status = "panic" /\ Short(Bodies[hist[c].b])
    /\ \E c \in Calls :
           /\ hist[c].status = "nil" /\ hist[c].touched /\ ~hist[c].fault
           /\ Len(files[hist[c].path]) >= 2

(***************************************************************************)
(* C9. A writer call with a non-empty batch writes to one file only, named *)
(* after the first record's account, device and UTC year, month, day and   *)
(* hour, also for later records of another hour; a call with an empty      *)
(* batch succeeds and touches nothing.                                     *)
(***************************************************************************)
\* root_dir/<account_id>/<YYYY>/<MM>/<DD>/<HH>-<device_id>.dat of the first
\* record, off the payload's bytes.
FirstRecordPath(body) ==
    LET t == LinearTime(body, 0)
        c == Date(t.sec \div 86400)
    IN  << SubSeq(body, 1, 10), Digits(c.year, 4), Digits(c.month, 2),
           Digits(c.day, 2),
           Digits((t.sec \div 3600) % 24, 2) \o <<45>> \o SubSeq(body, 11, 20)
               \o StrDotDat >>

NonEmptyCalls ==
    {c \in Calls : ~Short(Bodies[hist[c].b]) /\ DeclaredSamples(Bodies[hist[c].b]) > 0}

\* C9: every row lies in the file named after the first record of its call's
\* batch, no other file or directory exists, and an empty batch returns nil
\* without any I/O call.
C9_OneFileByFirstRecord ==
    /\ \A dest \in DOMAIN files :
           /\ \A k \in 1..Len(files[dest]) :
                  /\ files[dest][k].call \in NonEmptyCalls
                  /\ dest = FirstRecordPath(Bodies[hist[files[dest][k].call].b])
           /\ \E c \in NonEmptyCalls \cap Touching :
                  dest = FirstRecordPath(Bodies[hist[c].b])
    /\ \A d \in dirs :
           \E c \in NonEmptyCalls \cap Touching :
               d \in Ancestors(DirOf(FirstRecordPath(Bodies[hist[c].b])))
    /\ \A c \in Calls :
           (~Short(Bodies[hist[c].b]) /\ DeclaredSamples(Bodies[hist[c].b]) = 0) =>
               hist[c].status = "nil" /\ ~hist[c].touched /\ hist[c].path = <<>>

\* C9 witness: the file named after hour 00 holds a row of hour 01, it is
\* the only file, and an empty batch was handled.
C9_Witness ==
    /\ \E c \in Calls :
           /\ hist[c].status = "nil" /\ ~hist[c].fault /\ hist[c].path # <<>>
           /\ \E i \in 1..Len(Batch(c)) : Hour(Batch(c)[i].time) # Hour(Batch(c)[1].time)
           /\ Cols(DataWrittenBy(hist[c].path, c)) = Rows(c)
    /\ Cardinality(DOMAIN files) = 1
    /\ \E c \in Calls : ~Short(Bodies[hist[c].b]) /\ DeclaredSamples(Bodies[hist[c].b]) = 0

(***************************************************************************)
(* C10. In a file made by successful, non-overlapping writer calls, every  *)
(* data row has as many columns as the header row, 4 + C with C the        *)
(* channel count of the batch that created the file. As stated             *)
(* (C10_RowsMatchHeader) also when a later batch has another channel       *)
(* count; as amended (C10_RowWidthIsOwnBatch): the header has 4 + C        *)
(* columns and every data row has 4 + C' columns, C' the channel count of  *)
(* the batch the row came with, so a row matches the header exactly when   *)
(* its batch has the channel count of the batch that created the file.     *)
(***************************************************************************)
\* C10 as stated: in a file made by successful, non-overlapping calls every
\* row has the header's 4 + C columns.
C10_RowsMatchHeader ==
    \A dest \in DOMAIN files :
        (CallsOn(dest) # {} /\ Clean(dest)) =>
            \A k \in 1..Len(files[dest]) :
                Len(files[dest][k].cols) =
                    4 + DeclaredChannels(Bodies[hist[FirstCallOn(dest)].b])

\* C10 as amended: the header has 4 + C columns, C of the creating batch, and
\* every data row 4 + C' columns, C' of the batch it came with.
C10_RowWidthIsOwnBatch ==
    \A dest \in DOMAIN files :
        (CallsOn(dest) # {} /\ Clean(dest)) =>
            /\ Len(files[dest]) >= 1
            /\ IsHeaderRow(files[dest][1].cols)
            /\ Len(files[dest][1].cols) =
                   4 + DeclaredChannels(Bodies[hist[FirstCallOn(dest)].b])
            /\ \A k \in 2..Len(files[dest]) :
                   Len(files[dest][k].cols) =
                       4 + DeclaredChannels(Bodies[hist[files[dest][k].call].b])

\* C10 witness: such a file with a data row as wide as the header and one of
\* another width.
C10_Witness ==
    \E dest \in DOMAIN files :
        /\ Clean(dest)
        /\ \E k \in 2..Len(files[dest]) :
               Len(files[dest][k].cols) # Len(files[dest][1].cols)
        /\ \E k \in 2..Len(files[dest]) :
               Len(files[dest][k].cols) = Len(files[dest][1].cols)

=============================================================================
